---- MODULE Spec2Model ----
(***************************************************************************)
(* A model of src/e5.py: a script that loads the PDF and DOCX files of a   *)
(* fixed directory, builds a retrieval chain over their text, and defines  *)
(* a Flask application with two view functions.                            *)
(*                                                                         *)
(* A Python str is a sequence of one-character strings; a literal of the   *)
(* source that is only ever copied is kept as one element.  None is the    *)
(* one-element sequence <<"None">>, which no str of the model equals.      *)
(***************************************************************************)
EXTENDS Naturals, Sequences, FiniteSets, TLC

VARIABLES
    pc,         \* the statement of the module body that runs next
    error,      \* the exception that ended the module body, or "none"
    env,        \* the environment: credential, directory, external services
    todo,       \* entries of os.listdir(data_folder) not yet visited
    seen,       \* the kinds of directory entry the load loop has come to
    all_text,   \* the list all_text
    full_text,  \* the str full_text
    ns,         \* the names bound in the module's namespace
    runs,       \* how many times each pipeline stage has run
    frame,      \* the directory entry the load loop is at, and its extraction
    req,        \* the request the application handled last
    resp,       \* its response
    qa          \* what handle_user_input did for it

vars == <<pc, error, env, todo, seen, all_text, full_text, ns, runs,
          frame, req, resp, qa>>

web_vars == <<req, resp, qa>>

-----------------------------------------------------------------------------
(* Bounds *)

MaxFiles == 2
MaxPages == 2
MaxParas == 2

-----------------------------------------------------------------------------
(* Python values *)

None == <<"None">>

\* bool(v) for a str or None
Truthy(v) == v # None /\ v # <<>>

Whitespace == {" ", "\n"}

RECURSIVE LStrip(_)
LStrip(s) ==
    IF s # <<>> /\ Head(s) \in Whitespace THEN LStrip(Tail(s)) ELSE s

RECURSIVE RStrip(_)
RStrip(s) ==
    IF s # <<>> /\ s[Len(s)] \in Whitespace
    THEN RStrip(SubSeq(s, 1, Len(s) - 1))
    ELSE s

\* str.strip()
Strip(s) == RStrip(LStrip(s))

\* sep.join(parts)
RECURSIVE Join(_, _)
Join(sep, parts) ==
    IF parts = <<>> THEN <<>>
    ELSE IF Len(parts) = 1 THEN parts[1]
    ELSE parts[1] \o sep \o Join(sep, Tail(parts))

\* all sequences over S of length at most n
RECURSIVE SeqsUpTo(_, _)
SeqsUpTo(S, n) ==
    IF n = 0 THEN {<<>>}
    ELSE LET shorter == SeqsUpTo(S, n - 1)
         IN  shorter \cup {Append(s, x) : s \in shorter, x \in S}

-----------------------------------------------------------------------------
(* The documents of the directory *)

\* what page.extract_text() can give for one page
PageTexts == {<<>>, <<" ">>, <<"a">>}
\* what pytesseract.image_to_string can give for one page image
OcrTexts == {<<>>, <<"b">>}
\* what para.text can be for one paragraph
ParaTexts == {<<>>, <<" ">>, <<"a">>}

\* A PDF file: whether PdfReader opens it, the text direct extraction gives
\* for each page, whether rasterizing and OCR work, and the OCR text of each
\* page image.
PdfFiles ==
    {[ext |-> "pdf", opens |-> FALSE, parts |-> <<>>, ocr_ok |-> FALSE, ocr |-> <<>>]}
    \cup
    {f \in [ext : {"pdf"}, opens : {TRUE}, parts : SeqsUpTo(PageTexts, MaxPages),
             ocr_ok : BOOLEAN, ocr : SeqsUpTo(OcrTexts, MaxPages)] :
        Len(f.ocr) = Len(f.parts)}

\* A DOCX file: whether Document opens it, and the text of each paragraph.
DocxFiles ==
    {[ext |-> "docx", opens |-> FALSE, parts |-> <<>>, ocr_ok |-> FALSE, ocr |-> <<>>]}
    \cup
    {[ext |-> "docx", opens |-> TRUE, parts |-> p, ocr_ok |-> FALSE, ocr |-> <<>>] :
        p \in SeqsUpTo(ParaTexts, MaxParas)}

\* A directory entry whose name ends in neither ".pdf" nor ".docx".
OtherFiles ==
    {[ext |-> "other", opens |-> FALSE, parts |-> <<>>, ocr_ok |-> FALSE, ocr |-> <<>>]}

Files == PdfFiles \cup DocxFiles \cup OtherFiles

\* the outcome of a call that raised
Raised(in_fallback) ==
    [raised |-> TRUE, fallback |-> in_fallback, text |-> <<>>, ocr_langs |-> <<>>]

\* text after the loop over reader.pages
RECURSIVE DirectText(_)
DirectText(pages) ==
    IF pages = <<>> THEN <<>>
    ELSE (IF Truthy(Head(pages)) THEN Head(pages) \o <<"\n">> ELSE <<>>)
         \o DirectText(Tail(pages))

\* what the loop over the page images appends to text
RECURSIVE OcrText(_)
OcrText(images) ==
    IF images = <<>> THEN <<>>
    ELSE Head(images) \o <<"\n">> \o OcrText(Tail(images))

\* A faulty variant: the fallback test leaves out strip().
extract_text_from_pdf_NoStrip(f) ==
    LET text == DirectText(f.parts)
    IN  IF ~f.opens THEN Raised(FALSE)
        ELSE IF text = <<>>
        THEN IF ~f.ocr_ok THEN Raised(TRUE)
             ELSE [raised |-> FALSE, fallback |-> TRUE,
                   text |-> Strip(text \o OcrText(f.ocr)),
                   ocr_langs |-> [i \in 1..Len(f.ocr) |-> "hin"]]
        ELSE [raised |-> FALSE, fallback |-> FALSE, text |-> Strip(text),
              ocr_langs |-> <<>>]

extract_text_from_pdf(f) ==
    LET text == DirectText(f.parts)
    IN  IF ~f.opens THEN Raised(FALSE)
        ELSE IF Strip(text) = <<>>
        THEN IF ~f.ocr_ok THEN Raised(TRUE)
             ELSE [raised |-> FALSE, fallback |-> TRUE,
                   text |-> Strip(text \o OcrText(f.ocr)),
                   ocr_langs |-> [i \in 1..Len(f.ocr) |-> "hin"]]
        ELSE [raised |-> FALSE, fallback |-> FALSE, text |-> Strip(text),
              ocr_langs |-> <<>>]

\* [para.text for para in doc.paragraphs if para.text.strip()]
RECURSIVE NonBlank(_)
NonBlank(paras) ==
    IF paras = <<>> THEN <<>>
    ELSE (IF Strip(Head(paras)) # <<>> THEN <<Head(paras)>> ELSE <<>>)
         \o NonBlank(Tail(paras))

extract_text_from_docx(f) ==
    IF ~f.opens THEN Raised(FALSE)
    ELSE [raised |-> FALSE, fallback |-> FALSE,
          text |-> Strip(Join(<<"\n">>, NonBlank(f.parts))),
          ocr_langs |-> <<>>]

\* the branch of the load loop a directory entry takes
Extract(f) ==
    IF f.ext = "pdf" THEN extract_text_from_pdf(f)
    ELSE IF f.ext = "docx" THEN extract_text_from_docx(f)
    ELSE [raised |-> FALSE, fallback |-> FALSE, text |-> <<>>, ocr_langs |-> <<>>]

\* what a directory entry is to the loader
Kind(f) ==
    IF f.ext \notin {"pdf", "docx"} THEN "other"
    ELSE IF Extract(f).raised THEN "unreadable"
    ELSE IF Extract(f).text = <<>> THEN "empty"
    ELSE "readable"

-----------------------------------------------------------------------------
(* The module body, statement by statement *)

\* what os.getenv("OPENAI_API_KEY") can give after load_dotenv()
ApiKeys == {None, <<>>, <<"k">>}

NoRuns == [load |-> 0, split |-> 0, embed |-> 0, index |-> 0, chain |-> 0]

\* outside an iteration of the load loop
NoFrame ==
    [file |-> [ext |-> "none", opens |-> FALSE, parts |-> <<>>, ocr_ok |-> FALSE,
               ocr |-> <<>>],
     ret |-> [raised |-> FALSE, fallback |-> FALSE, text |-> <<>>,
              ocr_langs |-> <<>>]]

\* handle_user_input was not called
NotCalled == [called |-> FALSE, query |-> None, raised |-> FALSE, value |-> None,
              calls |-> <<>>]

NoReq == [route |-> "none", method |-> "none", name |-> None, dob |-> None,
          question |-> None]
NoResp == [status |-> "none", kind |-> "none", template |-> "none",
           data |-> [none |-> None]]

Init ==
    /\ pc = "load_env"
    /\ error = "none"
    /\ env \in [key : ApiKeys, folder : BOOLEAN]
    /\ todo = 0
    /\ seen = {}
    /\ all_text = <<>>
    /\ full_text = <<>>
    /\ ns = {"__name__", "__file__"}
    /\ runs = NoRuns
    /\ frame = NoFrame
    /\ req = NoReq
    /\ resp = NoResp
    /\ qa = NotCalled

\* the module body ends with an uncaught exception
Abort(e) ==
    /\ pc' = "aborted"
    /\ error' = e

\* lines 14-17 (and 21, which binds nothing the model reads)
LoadEnv ==
    /\ pc = "load_env"
    /\ ns' = ns \cup {"openai_api_key"}
    /\ IF ~Truthy(env.key) THEN Abort("MissingKey")
       ELSE pc' = "check_folder" /\ error' = error
    /\ UNCHANGED <<env, todo, seen, all_text, full_text, runs>>
    /\ UNCHANGED <<frame, web_vars>>

\* lines 24-49: the two extraction functions are defined, the folder is checked
CheckFolder ==
    /\ pc = "check_folder"
    /\ ns' = ns \cup {"extract_text_from_pdf", "extract_text_from_docx", "data_folder"}
    /\ IF ~env.folder THEN Abort("MissingFolder")
       ELSE pc' = "listdir" /\ error' = error
    /\ UNCHANGED <<env, todo, seen, all_text, full_text, runs>>
    /\ UNCHANGED <<frame, web_vars>>

\* lines 52-53: all_text = [] and the evaluation of os.listdir(data_folder)
ListDir ==
    /\ pc = "listdir"
    /\ \E n \in 0..MaxFiles :
        /\ todo' = n
        /\ pc' = IF n = 0 THEN "check_corpus" ELSE "load_loop"
    /\ all_text' = <<>>
    /\ ns' = ns \cup {"all_text"}
    /\ runs' = [runs EXCEPT !.load = @ + 1]
    /\ UNCHANGED <<error, env, seen, full_text>>
    /\ UNCHANGED <<frame, web_vars>>

\* lines 53-56 and 60-61: the loop takes the next directory entry f and calls
\* the extraction function its name selects
ExtractFile ==
    /\ pc = "load_loop"
    /\ todo > 0
    /\ \E f \in Files :
        /\ frame' = [file |-> f, ret |-> Extract(f)]
        /\ seen' = seen \cup {Kind(f)}
        /\ IF Extract(f).raised
           THEN Abort("ExtractionError")
           ELSE pc' = "append" /\ error' = error
    /\ UNCHANGED <<env, todo, all_text, full_text, ns, runs>>
    /\ UNCHANGED web_vars

\* lines 57-59 and 62-64: the extracted text joins all_text if it is not empty,
\* and the iteration ends
AppendText ==
    /\ pc = "append"
    /\ all_text' = IF frame.file.ext \in {"pdf", "docx"} /\ Truthy(frame.ret.text)
                   THEN Append(all_text, frame.ret.text)
                   ELSE all_text
    /\ todo' = todo - 1
    /\ pc' = IF todo = 1 THEN "check_corpus" ELSE "load_loop"
    /\ frame' = NoFrame
    /\ UNCHANGED <<error, env, seen, full_text, ns, runs>>
    /\ UNCHANGED web_vars

\* A faulty variant: the empty corpus is not rejected.
CheckCorpus_NoAbort ==
    /\ pc = "check_corpus"
    /\ full_text' = Join(<<"\n">>, all_text)
    /\ ns' = ns \cup {"full_text"}
    /\ pc' = "split"
    /\ UNCHANGED <<error, env, todo, seen, all_text, runs>>
    /\ UNCHANGED <<frame, web_vars>>

\* lines 66-69
CheckCorpus ==
    /\ pc = "check_corpus"
    /\ IF all_text = <<>>
       THEN /\ Abort("EmptyCorpus")
            /\ UNCHANGED <<full_text, ns>>
       ELSE /\ full_text' = Join(<<"\n">>, all_text)
            /\ ns' = ns \cup {"full_text"}
            /\ pc' = "split"
            /\ error' = error
    /\ UNCHANGED <<env, todo, seen, all_text, runs>>
    /\ UNCHANGED <<frame, web_vars>>

\* lines 72-74
SplitText ==
    /\ pc = "split"
    /\ ns' = ns \cup {"splitter", "chunks"}
    /\ runs' = [runs EXCEPT !.split = @ + 1]
    /\ pc' = "embed"
    /\ UNCHANGED <<error, env, todo, seen, all_text, full_text>>
    /\ UNCHANGED <<frame, web_vars>>

\* lines 77-81: FAISS.from_texts asks the embedding service for the vectors of
\* the chunks; the request succeeds or raises
BuildIndex ==
    /\ pc = "embed"
    /\ \E ok \in BOOLEAN :
        IF ok
        THEN /\ ns' = ns \cup {"embedding_model", "vector_db"}
             /\ runs' = [runs EXCEPT !.embed = @ + 1, !.index = @ + 1]
             /\ pc' = "chain"
             /\ error' = error
        ELSE /\ ns' = ns \cup {"embedding_model"}
             /\ runs' = [runs EXCEPT !.embed = @ + 1]
             /\ Abort("APIError")
    /\ UNCHANGED <<env, todo, seen, all_text, full_text>>
    /\ UNCHANGED <<frame, web_vars>>

\* lines 84-86
BuildChain ==
    /\ pc = "chain"
    /\ ns' = ns \cup {"llm", "retriever", "qa_chain"}
    /\ runs' = [runs EXCEPT !.chain = @ + 1]
    /\ pc' = "routes"
    /\ UNCHANGED <<error, env, todo, seen, all_text, full_text>>
    /\ UNCHANGED <<frame, web_vars>>

\* lines 89-117: handle_user_input, the application and its two routes
RegisterRoutes ==
    /\ pc = "routes"
    /\ ns' = ns \cup {"handle_user_input", "app", "index", "exit_app"}
    /\ pc' = "main_guard"
    /\ UNCHANGED <<error, env, todo, seen, all_text, full_text, runs>>
    /\ UNCHANGED <<frame, web_vars>>

\* lines 119-120: the condition reads the name _name_
MainGuard ==
    /\ pc = "main_guard"
    /\ IF "_name_" \in ns
       THEN pc' = "serving" /\ error' = error
       ELSE Abort("NameError")
    /\ UNCHANGED <<env, todo, seen, all_text, full_text, ns, runs>>
    /\ UNCHANGED <<frame, web_vars>>

Next ==
    \/ LoadEnv
    \/ CheckFolder
    \/ ListDir
    \/ ExtractFile
    \/ AppendText
    \/ CheckCorpus
    \/ SplitText
    \/ BuildIndex
    \/ BuildChain
    \/ RegisterRoutes
    \/ MainGuard

Spec == Init /\ [][Next]_vars

-----------------------------------------------------------------------------
(* The application: handle_user_input and the two view functions *)

\* The string literals of lines 93-116 (their emoji left out).
SORRY == <<"I'm sorry, I couldn't find an answer to that question.">>
TRANSLATION_FAILED == <<"Translation failed.">>
INITIAL_GREETING ==
    <<"Hello! I am your AI assistant. Please provide your details to begin.">>

\* line 94
TranslationPrompt(hindi_response) ==
    <<"Translate the following Hindi text to English:", "\n", "\n">>
    \o hindi_response
    \o <<"\n", "\n", "Provide a natural English answer.">>

\* line 109
Greeting(user_name) ==
    <<"Welcome, ">> \o user_name
    \o <<"! I am here to assist you with queries from my trained knowledge.">>

\* line 116
Farewell(name) == <<"Bye, ">> \o name \o <<"! Have a great day!">>

\* What the two model invocations of one request do: each returns out, or
\* raises (ok = FALSE) as a failed call of the external service does.
QaOuts ==
    {[ok |-> FALSE, out |-> None], [ok |-> TRUE, out |-> None],
     [ok |-> TRUE, out |-> <<>>], [ok |-> TRUE, out |-> <<"h">>]}
TrOuts ==
    {[ok |-> FALSE, out |-> None], [ok |-> TRUE, out |-> <<>>],
     [ok |-> TRUE, out |-> <<"e">>], [ok |-> TRUE, out |-> <<"h">>]}
\* the translation of an answer that is empty or never came is not asked for
Llms ==
    {l \in [qa : QaOuts, tr : TrOuts] :
        (~l.qa.ok \/ ~Truthy(l.qa.out)) => l.tr = [ok |-> TRUE, out |-> <<>>]}

\* A faulty variant: an empty translation falls back to the untranslated answer.
handle_user_input_ReturnsAnswer(user_query, llm) ==
    LET run == [fn |-> "qa_chain.run", arg |-> user_query, ok |-> llm.qa.ok,
                out |-> llm.qa.out]
        hindi_response == llm.qa.out
        invoke == [fn |-> "llm.invoke", arg |-> TranslationPrompt(hindi_response),
                   ok |-> llm.tr.ok, out |-> llm.tr.out]
        english_response == llm.tr.out
    IN  IF ~llm.qa.ok
        THEN [called |-> TRUE, query |-> user_query, raised |-> TRUE,
              value |-> None, calls |-> <<run>>]
        ELSE IF ~Truthy(hindi_response)
        THEN [called |-> TRUE, query |-> user_query, raised |-> FALSE,
              value |-> SORRY, calls |-> <<run>>]
        ELSE IF ~llm.tr.ok
        THEN [called |-> TRUE, query |-> user_query, raised |-> TRUE,
              value |-> None, calls |-> <<run, invoke>>]
        ELSE [called |-> TRUE, query |-> user_query, raised |-> FALSE,
              value |-> IF Truthy(english_response) THEN english_response
                        ELSE hindi_response,
              calls |-> <<run, invoke>>]

\* lines 89-96
handle_user_input(user_query, llm) ==
    LET run == [fn |-> "qa_chain.run", arg |-> user_query, ok |-> llm.qa.ok,
                out |-> llm.qa.out]
        hindi_response == llm.qa.out
        invoke == [fn |-> "llm.invoke", arg |-> TranslationPrompt(hindi_response),
                   ok |-> llm.tr.ok, out |-> llm.tr.out]
        english_response == llm.tr.out
    IN  IF ~llm.qa.ok
        THEN [called |-> TRUE, query |-> user_query, raised |-> TRUE,
              value |-> None, calls |-> <<run>>]
        ELSE IF ~Truthy(hindi_response)
        THEN [called |-> TRUE, query |-> user_query, raised |-> FALSE,
              value |-> SORRY, calls |-> <<run>>]
        ELSE IF ~llm.tr.ok
        THEN [called |-> TRUE, query |-> user_query, raised |-> TRUE,
              value |-> None, calls |-> <<run, invoke>>]
        ELSE [called |-> TRUE, query |-> user_query, raised |-> FALSE,
              value |-> IF Truthy(english_response) THEN english_response
                        ELSE TRANSLATION_FAILED,
              calls |-> <<run, invoke>>]

\* render_template("index.html", **ctx)
Render(ctx) ==
    [status |-> "200", kind |-> "html", template |-> "index.html", data |-> ctx]

\* the framework's answer to an exception a view function lets through
ServerError ==
    [status |-> "500", kind |-> "error", template |-> "none",
     data |-> [exception |-> <<"APIError">>]]

\* the body of the if of line 107
Answer(user_name, user_dob, query, llm) ==
    LET h == handle_user_input(query, llm)
    IN  IF h.raised
        THEN [resp |-> ServerError, qa |-> h]
        ELSE [resp |-> Render([greeting |-> Greeting(user_name),
                               response |-> h.value,
                               name |-> user_name,
                               dob |-> user_dob]),
              qa |-> h]

\* A faulty variant: the question is not tested.
index_NoQueryCheck(request, llm) ==
    LET user_name == request.name
        user_dob == request.dob
        query == request.question
    IN  IF request.method = "POST" /\ Truthy(user_name) /\ Truthy(user_dob)
        THEN Answer(user_name, user_dob, query, llm)
        ELSE [resp |-> Render([greeting |-> INITIAL_GREETING]), qa |-> NotCalled]

\* A faulty variant: the date of birth is not tested.
index_NoDobCheck(request, llm) ==
    LET user_name == request.name
        user_dob == request.dob
        query == request.question
    IN  IF request.method = "POST" /\ Truthy(user_name) /\ Truthy(query)
        THEN Answer(user_name, user_dob, query, llm)
        ELSE [resp |-> Render([greeting |-> INITIAL_GREETING]), qa |-> NotCalled]

\* lines 101-111
index(request, llm) ==
    LET user_name == request.name
        user_dob == request.dob
        query == request.question
    IN  IF request.method = "POST"
           /\ Truthy(user_name) /\ Truthy(user_dob) /\ Truthy(query)
        THEN Answer(user_name, user_dob, query, llm)
        ELSE [resp |-> Render([greeting |-> INITIAL_GREETING]), qa |-> NotCalled]

\* A faulty variant: the default of request.args.get is left out.
exit_app_NoDefault(request) ==
    [resp |-> [status |-> "200", kind |-> "json", template |-> "none",
               data |-> [farewell |-> Farewell(request.name)]],
     qa |-> NotCalled]

\* lines 113-117; request.name is None when the query string has no name
exit_app(request) ==
    LET name == IF request.name = None THEN <<"f", "r", "i", "e", "n", "d">>
                ELSE request.name
    IN  [resp |-> [status |-> "200", kind |-> "json", template |-> "none",
                   data |-> [farewell |-> Farewell(name)]],
         qa |-> NotCalled]

\* what request.form.get gives for a field: None when the form lacks it
FormValues == {None, <<>>, <<"x">>}

\* a GET carries no form
IndexRequests ==
    {[route |-> "/", method |-> "GET", name |-> None, dob |-> None, question |-> None]}
    \cup [route : {"/"}, method : {"POST"}, name : FormValues, dob : FormValues,
          question : FormValues]

\* what request.args.get("name") finds
ArgNames == {None, <<>>, <<"f">>, <<"A", "s", "h", "a">>}

ExitRequests ==
    [route : {"/exit"}, method : {"GET"}, name : ArgNames, dob : {None},
     question : {None}]

\* the process is alive, and the application object and the route's view
\* function exist
Routed(view) == pc # "aborted" /\ {"app", view} \subseteq ns

\* A faulty variant: each request for "/" builds the index again.
Index_Rebuilds ==
    /\ Routed("index")
    /\ \E request \in IndexRequests, llm \in Llms :
        /\ req' = request
        /\ resp' = index(request, llm).resp
        /\ qa' = index(request, llm).qa
    /\ runs' = [runs EXCEPT !.embed = @ + 1, !.index = @ + 1]
    /\ UNCHANGED <<pc, error, env, todo, seen, all_text, full_text, ns, frame>>

\* a request for "/" reaches the application
Index ==
    /\ Routed("index")
    /\ \E request \in IndexRequests, llm \in Llms :
        /\ req' = request
        /\ resp' = index(request, llm).resp
        /\ qa' = index(request, llm).qa
    /\ UNCHANGED <<pc, error, env, todo, seen, all_text, full_text, ns, runs, frame>>

\* a request for "/exit" reaches the application
ExitApp ==
    /\ Routed("exit_app")
    /\ \E request \in ExitRequests :
        /\ req' = request
        /\ resp' = exit_app(request).resp
        /\ qa' = exit_app(request).qa
    /\ UNCHANGED <<pc, error, env, todo, seen, all_text, full_text, ns, runs, frame>>

\* The module body, and requests handed to the application object it builds
\* (as a WSGI host or Flask's test client holding app hands them).
ServeNext ==
    \/ Next
    \/ Index
    \/ ExitApp

ServeSpec == Init /\ [][ServeNext]_vars

-----------------------------------------------------------------------------
(* Properties *)

\* n occurs in s as a contiguous substring 
Contains(s, n) ==
    \E i \in 1..(Len(s) + 1) :
        i + Len(n) - 1 <= Len(s) /\ SubSeq(s, i, i + Len(n) - 1) = n

Friend == <<"f", "r", "i", "e", "n", "d">>
Asha == <<"A", "s", "h", "a">>

InitialPage == Render([greeting |-> INITIAL_GREETING])

AllStagesOnce == [load |-> 1, split |-> 1, embed |-> 1, index |-> 1, chain |-> 1]

\* C1: a POST to "/" whose question field is missing or empty, whatever name
\* and dob hold, never calls handle_user_input and renders the initial
\* greeting alone, with no response in the template context.
C1_EmptyQuestionNoAnswer ==
    (req.route = "/" /\ req.method = "POST" /\ ~Truthy(req.question))
        => /\ ~qa.called
           /\ qa.calls = <<>>
           /\ resp = InitialPage
           /\ DOMAIN resp.data = {"greeting"}

\* C1's case: a form with name and date of birth but an empty question was posted.
C1_Witness ==
    /\ req.route = "/" /\ req.method = "POST"
    /\ Truthy(req.name) /\ Truthy(req.dob) /\ req.question = <<>>
    /\ resp.status = "200"

\* C2 as stated: every POST to "/" runs the QA engine on the submitted question
\* and, when it renders, renders the personalised greeting plus the answer; the
\* initial greeting alone is rendered only for a request that is not a POST.
C2_EveryPostAnswers ==
    (req.route = "/" /\ req.method = "POST")
        => /\ qa.called
           /\ qa.query = req.question
           /\ resp.status = "200"
                => /\ DOMAIN resp.data = {"greeting", "response", "name", "dob"}
                   /\ resp.data.greeting = Greeting(req.name)

\* C2 as amended: a POST to "/" whose name, dob and question are all present and
\* non-empty runs the QA engine on the question and, unless a model invocation
\* raises, renders the personalised greeting plus the string
\* handle_user_input returns; a GET, and a POST with any of the three fields
\* missing or empty, renders the initial greeting alone and runs nothing.
C2_CompletePostAnswers ==
    req.route = "/"
        => IF req.method = "POST"
              /\ Truthy(req.name) /\ Truthy(req.dob) /\ Truthy(req.question)
           THEN /\ qa.called
                /\ qa.query = req.question
                /\ qa.raised => resp = ServerError
                /\ ~qa.raised
                     => resp = Render([greeting |-> Greeting(req.name),
                                       response |-> qa.value,
                                       name |-> req.name,
                                       dob |-> req.dob])
           ELSE /\ ~qa.called
                /\ resp = InitialPage

\* C2's case: a complete form was posted and the page shows the translation.
C2_Witness ==
    /\ req.route = "/" /\ req.method = "POST"
    /\ Truthy(req.name) /\ Truthy(req.dob) /\ Truthy(req.question)
    /\ resp.status = "200"
    /\ resp.data.response = <<"e">>

\* C3: handle_user_input first runs the chain on the query.  An empty answer
\* gives the "couldn't find an answer" string and no translation invocation; a
\* non-empty answer is sent in the translation prompt, and an empty translation
\* gives "Translation failed.", any other translation is returned as it is.
\* A returned value is never empty, and equals the answer only when the
\* translation invocation itself returned that text.
C3_PlaceholderOnEmptyOutput ==
    qa.called
        => /\ Len(qa.calls) >= 1
           /\ qa.calls[1].fn = "qa_chain.run"
           /\ qa.calls[1].arg = qa.query
           /\ ~qa.calls[1].ok => (qa.raised /\ Len(qa.calls) = 1)
           /\ (qa.calls[1].ok /\ ~Truthy(qa.calls[1].out))
                => /\ ~qa.raised
                   /\ qa.value = SORRY
                   /\ Len(qa.calls) = 1
           /\ (qa.calls[1].ok /\ Truthy(qa.calls[1].out))
                => /\ Len(qa.calls) = 2
                   /\ qa.calls[2].fn = "llm.invoke"
                   /\ qa.calls[2].arg = TranslationPrompt(qa.calls[1].out)
                   /\ ~qa.calls[2].ok => qa.raised
                   /\ (qa.calls[2].ok /\ ~Truthy(qa.calls[2].out))
                        => (~qa.raised /\ qa.value = TRANSLATION_FAILED)
                   /\ (qa.calls[2].ok /\ Truthy(qa.calls[2].out))
                        => (~qa.raised /\ qa.value = qa.calls[2].out)
           /\ ~qa.raised
                => /\ Truthy(qa.value)
                   /\ qa.value = qa.calls[1].out
                        => (Len(qa.calls) = 2 /\ qa.calls[2].out = qa.calls[1].out)

\* C3's case: the answer came, its translation came back empty.
C3_Witness ==
    /\ qa.called
    /\ Len(qa.calls) = 2
    /\ Truthy(qa.calls[1].out)
    /\ qa.calls[2].ok /\ qa.calls[2].out = <<>>
    /\ qa.value = TRANSLATION_FAILED

\* C4: the three fatal conditions are tested in the order credential,
\* directory, corpus, and each ends the module body before any later step: with
\* no credential the directory is never looked at, with no directory no entry
\* is listed or read, with an empty corpus nothing is split, embedded or
\* indexed, and in all three cases no application exists to take a request.
C4_FatalStartupAborts ==
    /\ ~Truthy(env.key)
         => /\ pc \in {"load_env", "aborted"}
            /\ pc = "aborted" => error = "MissingKey"
            /\ "data_folder" \notin ns
            /\ runs = NoRuns /\ seen = {} /\ frame = NoFrame
    /\ (Truthy(env.key) /\ ~env.folder)
         => /\ pc \in {"load_env", "check_folder", "aborted"}
            /\ pc = "aborted" => error = "MissingFolder"
            /\ runs = NoRuns /\ seen = {} /\ frame = NoFrame
    /\ runs.split > 0 => all_text # <<>>
    /\ (all_text = <<>> /\ pc \notin {"load_env", "check_folder", "listdir",
                                      "load_loop", "append", "check_corpus"})
         => /\ pc = "aborted"
            /\ runs.split = 0 /\ runs.embed = 0 /\ runs.index = 0 /\ runs.chain = 0
    /\ error \in {"MissingKey", "MissingFolder", "EmptyCorpus"}
         => /\ pc = "aborted"
            /\ "app" \notin ns
            /\ resp = NoResp /\ req = NoReq /\ ~qa.called

\* C4's case: the directory was read and nothing in it gave any text.
C4_Witness ==
    /\ pc = "aborted"
    /\ error = "EmptyCorpus"
    /\ seen # {}
    /\ runs.load = 1

\* C5: a document whose extraction fails is left out of the corpus and the load
\* loop goes on: the loop never ends the process on such a document.
C5_FailuresSkipped ==
    "unreadable" \in seen => ~(pc = "aborted" /\ error = "ExtractionError")

\* C6: once the directory has shown a readable document, whatever empty or
\* unreadable entries it also holds, loading does not fail; the loaded text is
\* not empty and every text that entered it is not empty; and a directory that
\* showed only empty or unreadable entries makes loading fail.
C6_ReadableMeansLoaded ==
    /\ "readable" \in seen => error \notin {"ExtractionError", "EmptyCorpus"}
    /\ "full_text" \in ns
         => /\ full_text # <<>>
            /\ all_text # <<>>
            /\ \A i \in 1..Len(all_text) : all_text[i] # <<>>
    /\ ("readable" \notin seen
        /\ pc \notin {"load_env", "check_folder", "listdir", "load_loop",
                      "append", "check_corpus"})
         => pc = "aborted"

\* C7: each pipeline stage runs at most once, a request is handled only when
\* load, split, embed, index and chain have each run exactly once and the
\* vector store and the chain are bound, and handling requests leaves those
\* counts as they are.
C7_BuiltOnceBeforeServing ==
    /\ \A stage \in DOMAIN runs : runs[stage] <= 1
    /\ (resp.status # "none" \/ req.route # "none" \/ qa.called)
         => /\ runs = AllStagesOnce
            /\ {"all_text", "full_text", "chunks", "vector_db", "qa_chain"} \subseteq ns

\* C7's case: a request was answered through the chain.
C7_Witness ==
    /\ resp.status = "200"
    /\ qa.called
    /\ runs = AllStagesOnce

\* C8: when no fatal startup condition holds and the external calls succeed,
\* the module body does not stop short of the serving phase: it ends early only
\* for a missing credential, a missing directory, an empty corpus or a failed
\* external call.
C8_ReachesServing ==
    pc = "aborted"
        => error \in {"MissingKey", "MissingFolder", "EmptyCorpus",
                      "ExtractionError", "APIError"}

\* C9: a GET to "/exit" returns a JSON object whose only field is farewell, a
\* string that contains the name parameter, or "friend" when there is none,
\* and handle_user_input is not called.
C9_ExitFarewell ==
    req.route = "/exit"
        => /\ resp.status = "200"
           /\ resp.kind = "json"
           /\ DOMAIN resp.data = {"farewell"}
           /\ Contains(resp.data.farewell,
                       IF req.name = None THEN Friend ELSE req.name)
           /\ ~qa.called
           /\ qa.calls = <<>>

\* C9's case: /exit?name=Asha was requested.
C9_Witness ==
    /\ req.route = "/exit"
    /\ req.name = Asha
    /\ Contains(resp.data.farewell, Asha)

\* every page gave the empty string under direct extraction
AllEmpty(pages) == \A i \in 1..Len(pages) : pages[i] = <<>>

\* every page gave only whitespace, or nothing, under direct extraction
AllBlank(pages) == \A i \in 1..Len(pages) : Strip(pages[i]) = <<>>

IsNonEmpty(t) == t # <<>>

\* the non-empty texts of a sequence, in order, one per line, stripped
Lines(texts) == Strip(Join(<<"\n">>, SelectSeq(texts, IsNonEmpty)))

\* all the texts of a sequence, in order, one per line, stripped
AllLines(texts) == Strip(Join(<<"\n">>, texts))

\* C10 as stated: for a PDF that opens, the OCR fallback is entered exactly
\* when every page gives empty text; otherwise no OCR call is made and the
\* result is the page texts in page order; in the fallback every page image is
\* read with lang "hin" and the result is the OCR texts in page order.
C10_OcrIffAllEmpty ==
    (frame.file.ext = "pdf" /\ frame.file.opens)
        => /\ frame.ret.fallback <=> AllEmpty(frame.file.parts)
           /\ ~AllEmpty(frame.file.parts)
                => /\ frame.ret.ocr_langs = <<>>
                   /\ frame.ret.text = Lines(frame.file.parts)
           /\ (AllEmpty(frame.file.parts) /\ ~frame.ret.raised)
                => /\ frame.ret.ocr_langs = [i \in 1..Len(frame.file.parts) |-> "hin"]
                   /\ frame.ret.text = AllLines(frame.file.ocr)

\* C10 as amended: for a PDF that opens, the OCR fallback is entered exactly
\* when every page gives empty or whitespace-only text (the accumulated text is
\* empty after strip()); when some page gives text with a non-whitespace
\* character no OCR call is made and the result is the non-empty page texts in
\* page order, one per line, stripped; in the fallback every page image is read
\* with lang "hin" and, unless OCR raises, the result is the OCR texts in page
\* order, each on its own line, stripped as a whole.
C10_OcrIffAllBlank ==
    (frame.file.ext = "pdf" /\ frame.file.opens)
        => /\ frame.ret.fallback <=> AllBlank(frame.file.parts)
           /\ ~AllBlank(frame.file.parts)
                => /\ ~frame.ret.raised
                   /\ frame.ret.ocr_langs = <<>>
                   /\ frame.ret.text = Lines(frame.file.parts)
           /\ AllBlank(frame.file.parts)
                => /\ frame.ret.raised <=> ~frame.file.ocr_ok
                   /\ ~frame.ret.raised
                        => /\ frame.ret.ocr_langs
                                = [i \in 1..Len(frame.file.parts) |-> "hin"]
                           /\ frame.ret.text = AllLines(frame.file.ocr)

\* C10's case: a page gave whitespace only, and the text came from OCR.
C10_Witness ==
    /\ frame.file.ext = "pdf"
    /\ \E i \in 1..Len(frame.file.parts) : frame.file.parts[i] = <<" ">>
    /\ frame.ret.fallback
    /\ frame.ret.ocr_langs = <<"hin", "hin">>
    /\ frame.ret.text = <<"b", "\n", "b">>

====
